---- MODULE Spec2Model ----
(***************************************************************************)
(* Host controller of the CursorVoice extension (extension.ts): the        *)
(* conversation store kept in globalState and the ai-request relay.        *)
(* Strings are modelled as sequences of tokens, ISO timestamps as the      *)
(* millisecond clock value they are printed from.                          *)
(***************************************************************************)
EXTENDS Integers, Sequences, FiniteSets, TLC

(* ---------------------------- bounds ---------------------------------- *)
MaxTime == 1
MaxConvs == 2
MaxInFlight == 1
MaxWords == 2
MaxPanels == 2
MaxMessages == 2
MaxSaving == 1

(* ------------------------- program constants --------------------------- *)
FullContentLimit == 10000
ContextRadius == 50

VARIABLES
    now,                \* Date.now(), in milliseconds
    conversations,      \* globalState['cursorVoice.conversations']
    config,             \* workspace configuration section 'cursorVoice'
    openaiClient,       \* let openaiClient: OpenAI | null
    anthropicClient,    \* let anthropicClient: Anthropic | null
    editor,             \* vscode.window.activeTextEditor
    workspaceName,      \* vscode.workspace.workspaceFolders?.[0].name
    inFlight,           \* handleAIRequest invocations awaiting the provider
    posted,             \* panel.webview.postMessage calls made by the last step
    lastReq,            \* the event the last step handled
    didWrite,           \* whether the last step called saveConversations
    lastAI,             \* what handleAIRequest read and did, if it was the last step
    scenario,           \* the example session of the spec (idle outside it)
    globalWebviewPanel, \* let globalWebviewPanel: vscode.WebviewPanel | null
    openPanels,         \* the webview panels created and not yet disposed
    panel,              \* React state of the webview of a panel (index.tsx)
    recognizer,         \* the SpeechRecognition object of that webview
    toHost,             \* vscode.postMessage calls not yet received by the host
    toPanel,            \* webview.postMessage calls not yet received by the panel
    storage,            \* whether the store behind globalState takes writes
    saving              \* handleSettingsSave invocations awaiting config.update

vars == <<now, conversations, config, openaiClient, anthropicClient, editor,
          workspaceName, inFlight, posted, lastReq, didWrite, lastAI,
          scenario, globalWebviewPanel, openPanels, panel, recognizer, toHost,
          toPanel, storage, saving>>

refVars == <<globalWebviewPanel, openPanels>>
webviewVars == <<panel, recognizer, toHost>>
uiVars == <<refVars, webviewVars, toPanel>>

storeVars == <<conversations, posted, lastReq, didWrite>>
hostVars == <<config, openaiClient, anthropicClient, editor, workspaceName,
             inFlight>>
aiVars == <<hostVars, lastAI>>

(* ----------------------------- values --------------------------------- *)
\* the webview whose React state is not followed
NoPanel == <<>>

\* outcomes of Math.random().toString(36).substr(2)
RandVals == {0, 1}

\* undefined / absent conversationId (falsy in `if (data.conversationId)`)
NoId == <<>>

Message(type, content) == [type |-> type, content |-> content]

\* an id no stored conversation has (generateId stamps ids with a time >= 0)
UnknownId == <<-1, 0>>

\* ids a request can carry: none, the id of a stored entry, or another one
RequestIds(convs) ==
    {NoId, UnknownId} \cup {convs[i].id : i \in 1..Len(convs)}

(* ------------------------ conversation store --------------------------- *)
generateId(t, r) == <<t, r>>

getConversations == conversations

findIndex(convs, id) ==
    IF \E i \in 1..Len(convs) : convs[i].id = id
    THEN CHOOSE i \in 1..Len(convs) :
            /\ convs[i].id = id
            /\ \A j \in 1..(i - 1) : convs[j].id # id
    ELSE -1

\* variant: the entry is rebuilt like a new one, so createdAt is stamped again
UpdatedConversationRestamped(c, data, t) ==
    [c EXCEPT !.title = data.title, !.createdAt = t, !.updatedAt = t,
              !.messages = data.messages]

UpdatedConversation(c, data, t) ==
    [c EXCEPT !.title = data.title, !.updatedAt = t, !.messages = data.messages]

NewConversation(data, t, r) ==
    [id |-> generateId(t, r), title |-> data.title, createdAt |-> t,
     updatedAt |-> t, messages |-> data.messages]

\* the list handleConversationSave hands to saveConversations
SavedList(convs, data, t, r) ==
    IF data.conversationId # NoId
    THEN LET index == findIndex(convs, data.conversationId)
         IN  IF index # -1
             THEN [convs EXCEPT ![index] = UpdatedConversation(convs[index], data, t)]
             ELSE convs
    ELSE <<NewConversation(data, t, r)>> \o convs

\* variant: the summary spreads the conversation, so the bodies travel along
SummaryWithBodies(c) ==
    [id |-> c.id, title |-> c.title, createdAt |-> c.createdAt,
     updatedAt |-> c.updatedAt, messages |-> c.messages,
     messageCount |-> Len(c.messages)]

Summary(c) ==
    [id |-> c.id, title |-> c.title, createdAt |-> c.createdAt,
     updatedAt |-> c.updatedAt, messageCount |-> Len(c.messages)]

ConversationListMessage(convs) ==
    [type |-> "conversation-list",
     data |-> [i \in 1..Len(convs) |-> Summary(convs[i])]]

SavedReplyId(convs, data) ==
    IF data.conversationId # NoId THEN data.conversationId ELSE convs[1].id

ConversationSavedMessage(convs, data) ==
    [type |-> "conversation-saved",
     data |-> [success |-> TRUE, conversationId |-> SavedReplyId(convs, data),
               message |-> "Conversation saved successfully!"]]

\* saveConversations does not await globalState.update: the memento holds
\* the new list at once, and the Thenable it returns resolves (TRUE) or
\* rejects (FALSE) after the handler has replied
WriteOutcomes == {storage = "ok"}

handleConversationList ==
    /\ posted' = <<ConversationListMessage(getConversations)>>
    /\ lastReq' = [type |-> "conversation-list", at |-> now]
    /\ didWrite' = FALSE
    /\ UNCHANGED conversations

handleConversationSave(data) ==
    /\ \E r \in RandVals :
         LET saved == SavedList(getConversations, data, now, r)
         IN  /\ conversations' = saved
             /\ posted' = <<ConversationSavedMessage(saved, data),
                            ConversationListMessage(saved)>>
    /\ \E written \in WriteOutcomes :
         lastReq' = [type |-> "conversation-save", at |-> now, data |-> data,
                     written |-> written]
    /\ didWrite' = TRUE

\* variant: the predicate of find() does not compare ids
FoundFirstConversation(convs, id) ==
    IF Len(convs) > 0 THEN <<convs[1]>> ELSE <<>>

FoundConversation(convs, id) ==
    LET index == findIndex(convs, id)
    IN  IF index # -1 THEN <<convs[index]>> ELSE <<>>

handleConversationLoad(data) ==
    /\ LET found == FoundConversation(getConversations, data.conversationId)
       IN  posted' =
             IF found # <<>>
             THEN <<[type |-> "conversation-loaded", data |-> found[1]]>>
             ELSE <<[type |-> "conversation-loaded",
                     data |-> [error |-> "Conversation not found"]]>>
    /\ lastReq' = [type |-> "conversation-load", at |-> now, data |-> data]
    /\ didWrite' = FALSE
    /\ UNCHANGED conversations

\* variant: the filter keeps the matching entries instead of the others
FilteredKeepingMatch(convs, id) ==
    SelectSeq(convs, LAMBDA c : c.id = id)

FilteredConversations(convs, id) ==
    SelectSeq(convs, LAMBDA c : c.id # id)

\* variant: the length test is not strict
RemovedOrSame(convs, filtered) == Len(filtered) <= Len(convs)

Removed(convs, filtered) == Len(filtered) < Len(convs)

handleConversationDelete(data) ==
    /\ LET filtered == FilteredConversations(getConversations, data.conversationId)
       IN  IF Removed(getConversations, filtered)
           THEN /\ conversations' = filtered
                /\ didWrite' = TRUE
                /\ posted' = <<[type |-> "conversation-deleted",
                                data |-> [success |-> TRUE,
                                          message |-> "Conversation deleted successfully!"]],
                               ConversationListMessage(filtered)>>
           ELSE /\ UNCHANGED conversations
                /\ didWrite' = FALSE
                /\ posted' = <<[type |-> "conversation-deleted",
                                data |-> [success |-> FALSE,
                                          message |-> "Conversation not found"]]>>
    /\ \E written \in WriteOutcomes :
         /\ ~didWrite' => written
         /\ lastReq' = [type |-> "conversation-delete", at |-> now,
                        data |-> data, written |-> written]

\* title and messages a conversation-save can carry
Payloads ==
    { [title |-> <<"test">>, messages |-> <<>>],
      [title |-> <<"test">>, messages |-> <<Message("user", <<"hello">>)>>],
      [title |-> <<"notes">>,
       messages |-> <<Message("user", <<"hello">>),
                      Message("assistant", <<"hi">>)>>] }

SaveRequests ==
    { [conversationId |-> id, title |-> p.title, messages |-> p.messages] :
        id \in RequestIds(conversations), p \in Payloads }

IdRequests == [conversationId : RequestIds(conversations)]

Idle == scenario.pc = "idle"

ConversationSave ==
    /\ Idle
    /\ \E data \in SaveRequests :
         /\ data.conversationId = NoId => Len(conversations) < MaxConvs
         /\ handleConversationSave(data)
    /\ lastAI' = [type |-> "none"]
    /\ UNCHANGED <<now, hostVars, scenario, storage, saving, uiVars>>

ConversationLoad ==
    /\ Idle
    /\ \E data \in IdRequests : handleConversationLoad(data)
    /\ lastAI' = [type |-> "none"]
    /\ UNCHANGED <<now, hostVars, scenario, storage, saving, uiVars>>

ConversationList ==
    /\ Idle
    /\ handleConversationList
    /\ lastAI' = [type |-> "none"]
    /\ UNCHANGED <<now, hostVars, scenario, storage, saving, uiVars>>

ConversationDelete ==
    /\ Idle
    /\ \E data \in IdRequests : handleConversationDelete(data)
    /\ lastAI' = [type |-> "none"]
    /\ UNCHANGED <<now, hostVars, scenario, storage, saving, uiVars>>

\* the millisecond clock advances between handler invocations
Tick ==
    /\ now < MaxTime
    /\ now' = now + 1
    /\ posted' = <<>>
    /\ lastReq' = [type |-> "tick", at |-> now + 1]
    /\ didWrite' = FALSE
    /\ lastAI' = [type |-> "none"]
    /\ UNCHANGED <<conversations, hostVars, scenario, storage, saving, uiVars>>


(* --------------------------- configuration ----------------------------- *)
Null == <<>>

Providers == {"openai", "claude", "other"}
ApiKeys == {"", "sk-1"}

Configs ==
    [aiProvider : Providers, openaiApiKey : ApiKeys, claudeApiKey : ApiKeys]

DefaultConfig ==
    [aiProvider |-> "openai", openaiApiKey |-> "", claudeApiKey |-> ""]

\* variant: a client is built whatever the key
NewClientAlways(apiKey) == <<[apiKey |-> apiKey]>>

NewClient(apiKey) == IF apiKey # "" THEN <<[apiKey |-> apiKey]>> ELSE Null

getApiKey(cfg, provider) ==
    CASE provider = "openai" -> cfg.openaiApiKey
      [] provider = "claude" -> cfg.claudeApiKey
      [] OTHER -> ""

\* onDidChangeConfiguration: one setting changes, then initializeAIClients runs
initializeAIClients(cfg) ==
    /\ openaiClient' = NewClient(cfg.openaiApiKey)
    /\ anthropicClient' = NewClient(cfg.claudeApiKey)

ConfigurationChanged ==
    /\ Idle
    /\ \E cfg \in Configs :
         /\ cfg # config
         /\ \/ cfg = [config EXCEPT !.aiProvider = cfg.aiProvider]
            \/ cfg = [config EXCEPT !.openaiApiKey = cfg.openaiApiKey]
            \/ cfg = [config EXCEPT !.claudeApiKey = cfg.claudeApiKey]
         /\ config' = cfg
         /\ initializeAIClients(cfg)
    /\ posted' = <<>>
    /\ lastReq' = [type |-> "configuration-changed", at |-> now]
    /\ lastAI' = [type |-> "none"]
    /\ didWrite' = FALSE
    /\ UNCHANGED <<now, conversations, editor, workspaceName, inFlight, scenario, storage, saving, uiVars>>

(* ---------------------------- code context ----------------------------- *)
Max(a, b) == IF a >= b THEN a ELSE b
Min(a, b) == IF a <= b THEN a ELSE b

NoEditor == <<>>

Document(lineCount, lineLength, cursorLine, selectedText) ==
    [fileName |-> <<"main.ts">>, language |-> <<"typescript">>,
     relativePath |-> <<"src/main.ts">>, lineCount |-> lineCount,
     lineLength |-> lineLength, cursorLine |-> cursorLine,
     cursorCharacter |-> 0, selectedText |-> selectedText]

\* the editor and workspace states the host can be in
Environments ==
    { [editor |-> NoEditor, workspaceName |-> <<>>],
      [editor |-> <<Document(3, 10, 1, <<"let x">>)>>, workspaceName |-> <<"app">>],
      [editor |-> <<Document(300, 100, 120, <<>>)>>, workspaceName |-> <<"app">>] }

\* document.getText().length: the lines joined by one line break each
ContentLength(doc) == doc.lineCount * (doc.lineLength + 1) - 1

\* document.getText(range) for whole lines startLine..endLine (0-based)
LinesText(doc, startLine, endLine) ==
    IF ContentLength(doc) = 0 THEN <<>>
    ELSE <<"lines", ToString(startLine), "to", ToString(endLine)>>

ExcerptStart(doc) == Max(0, doc.cursorLine - ContextRadius)
ExcerptEnd(doc) == Min(doc.lineCount - 1, doc.cursorLine + ContextRadius)

\* variant: the size test is strict, so a document of exactly the limit is cut
FileContentBelowLimit(doc) ==
    IF ContentLength(doc) < FullContentLimit
    THEN LinesText(doc, 0, doc.lineCount - 1)
    ELSE <<"... (showing lines", ToString(ExcerptStart(doc) + 1), "-",
           ToString(ExcerptEnd(doc) + 1), "around cursor) ...">>
         \o LinesText(doc, ExcerptStart(doc), ExcerptEnd(doc))

FileContent(doc) ==
    IF ContentLength(doc) <= FullContentLimit
    THEN LinesText(doc, 0, doc.lineCount - 1)
    ELSE <<"... (showing lines", ToString(ExcerptStart(doc) + 1), "-",
           ToString(ExcerptEnd(doc) + 1), "around cursor) ...">>
         \o LinesText(doc, ExcerptStart(doc), ExcerptEnd(doc))

\* absent fields of CodeContext are empty strings (both are falsy)
gatherCodeContext(ed, ws) ==
    IF ed # NoEditor
    THEN LET doc == ed[1]
         IN  [fileName |-> doc.fileName, language |-> doc.language,
              relativePath |-> doc.relativePath,
              cursorPosition |-> <<ToString(doc.cursorLine + 1),
                                   ToString(doc.cursorCharacter + 1)>>,
              selectedText |-> doc.selectedText,
              fileContent |-> FileContent(doc),
              workspaceName |-> ws]
    ELSE [fileName |-> <<>>, language |-> <<>>, relativePath |-> <<>>,
          cursorPosition |-> <<>>, selectedText |-> <<>>, fileContent |-> <<>>,
          workspaceName |-> ws]

When(cond, text) == IF cond THEN text ELSE <<>>

formatContextForAI(context) ==
    <<"## Current Context">>
    \o When(context.workspaceName # <<>>,
            <<"**Workspace:**">> \o context.workspaceName)
    \o When(context.fileName # <<>>,
            <<"**File:**">>
            \o (IF context.relativePath # <<>> THEN context.relativePath
                ELSE context.fileName)
            \o <<"**Language:**">> \o context.language
            \o When(context.cursorPosition # <<>>,
                    <<"**Cursor Position:** Line", context.cursorPosition[1],
                      "Column", context.cursorPosition[2]>>))
    \o When(context.selectedText # <<>>,
            <<"**Selected Text:**", "code-fence">> \o context.language
            \o context.selectedText \o <<"code-fence">>)
    \o When(context.fileContent # <<>>,
            <<"**Current File Content:**", "code-fence">> \o context.language
            \o context.fileContent \o <<"code-fence">>)
    \o <<"---">>

EditorChanged ==
    /\ Idle
    /\ \E env \in Environments :
         /\ <<env.editor, env.workspaceName>> # <<editor, workspaceName>>
         /\ editor' = env.editor
         /\ workspaceName' = env.workspaceName
    /\ posted' = <<>>
    /\ lastReq' = [type |-> "editor-changed", at |-> now]
    /\ didWrite' = FALSE
    /\ lastAI' = [type |-> "none"]
    /\ UNCHANGED <<now, conversations, config, openaiClient, anthropicClient,
                   inFlight, scenario, storage, saving, uiVars>>


\* documents the active editor can show: line counts and line lengths around
\* the size limit and the excerpt window, the cursor on any line
DocumentSamples ==
    { Document(lineCount, lineLength, cursorLine, <<>>) :
        lineCount \in {1, 2, 73, 74, 101, 102, 300},
        lineLength \in {0, 10, 136, 10001},
        cursorLine \in {0, 1, 10, 49, 50, 51, 72, 73, 100, 101, 150,
                        248, 249, 250, 299} }

DocumentOpened ==
    /\ Idle
    /\ \E doc \in DocumentSamples :
         /\ doc.cursorLine < doc.lineCount
         /\ editor' = <<doc>>
    /\ posted' = <<>>
    /\ lastReq' = [type |-> "editor-changed", at |-> now]
    /\ didWrite' = FALSE
    /\ lastAI' = [type |-> "none"]
    /\ UNCHANGED <<now, conversations, config, openaiClient, anthropicClient,
                   workspaceName, inFlight, scenario, storage, saving, uiVars>>

handleContextGet ==
    /\ posted' = <<[type |-> "context-data",
                    data |-> gatherCodeContext(editor, workspaceName)]>>
    /\ lastReq' = [type |-> "context-get", at |-> now]

ContextGet ==
    /\ Idle
    /\ handleContextGet
    /\ didWrite' = FALSE
    /\ lastAI' = [type |-> "none"]
    /\ UNCHANGED <<now, conversations, hostVars, scenario, storage, saving, uiVars>>

(* ----------------------------- ai-request ------------------------------ *)
Prompts == {<<"explain", "this">>, <<"fix", "it">>}

\* data of an ai-request message; includeContext is optional
AIRequests == [prompt : Prompts] \cup [prompt : Prompts, includeContext : BOOLEAN]

\* text a provider completes with (empty: no text block / empty content)
Completions == {<<"answer">>, <<>>}
\* messages of the exceptions a provider call throws
Failures == {<<"Connection error.">>, <<"429", "Rate limit reached">>}

\* variant: the key check never fires
MissingKeyIgnored(apiKey) == FALSE

MissingKey(apiKey) == apiKey = ""

\* `if (data.includeContext)`
\* variant: `data.includeContext !== false`, so an absent flag counts as on
WantsContextUnlessFalse(data) ==
    ~("includeContext" \in DOMAIN data /\ data.includeContext = FALSE)

WantsContext(data) == "includeContext" \in DOMAIN data /\ data.includeContext

SentPrompt(data, currentContext) ==
    IF currentContext # Null
    THEN formatContextForAI(currentContext[1]) \o <<"**User Question:**">>
         \o data.prompt
    ELSE data.prompt

ClientOf(provider) ==
    CASE provider = "openai" -> openaiClient
      [] provider = "claude" -> anthropicClient
      [] OTHER -> Null

NotInitialized(provider) ==
    IF provider = "openai" THEN <<"OpenAI client not initialized">>
    ELSE <<"Claude client not initialized">>

NoKeyResponse(provider) ==
    [type |-> "ai-response",
     data |-> [response |-> <<"Error: No API key configured for", provider,
                              ". Please set your API key in the Settings.">>,
               status |-> "error"]]

\* variant: the thrown value is never taken for an Error, so its message is lost
ErrorResponseUnknown(errorMessage, provider) ==
    [type |-> "ai-response",
     data |-> [response |-> <<"Error:", "Unknown error occurred">>,
               status |-> "error", provider |-> provider]]

ErrorResponse(errorMessage, provider) ==
    [type |-> "ai-response",
     data |-> [response |-> <<"Error:">> \o errorMessage, status |-> "error",
               provider |-> provider]]

SuccessResponse(call, response) ==
    [type |-> "ai-response",
     data |-> [response |-> response, status |-> "success",
               provider |-> call.aiProvider,
               includedContext |-> WantsContext(call.data),
               context |-> call.currentContext]]

ResponseText(text) == IF text # <<>> THEN text ELSE <<"No response generated">>

AIStep(data, gathered, called) ==
    [type |-> "ai-request", data |-> data, config |-> config,
     gathered |-> gathered, called |-> called]

\* the pending provider calls are told apart by the promise awaited; a new
\* call takes the least number no pending call holds
Calls == 1..MaxInFlight

FreeCall ==
    CHOOSE k \in Calls :
        /\ \A i \in 1..Len(inFlight) : inFlight[i].call # k
        /\ \A j \in Calls :
             (\A i \in 1..Len(inFlight) : inFlight[i].call # j) => k <= j

\* handleAIRequest up to its first await: the key check, the enrichment and
\* the dispatch of the provider call
handleAIRequest(data) ==
    LET aiProvider == config.aiProvider
        apiKey == getApiKey(config, aiProvider)
    IN  /\ lastReq' = [type |-> "ai-request", at |-> now, data |-> data]
        /\ IF MissingKey(apiKey)
           THEN /\ posted' = <<NoKeyResponse(aiProvider)>>
                /\ lastAI' = AIStep(data, FALSE, <<>>)
                /\ UNCHANGED inFlight
           ELSE LET wants == WantsContext(data)
                    currentContext ==
                        IF wants THEN <<gatherCodeContext(editor, workspaceName)>>
                        ELSE Null
                    prompt == SentPrompt(data, currentContext)
                IN  IF aiProvider \notin {"openai", "claude"}
                    THEN /\ posted' = <<ErrorResponse(
                                <<"Unsupported AI provider:", aiProvider>>, aiProvider)>>
                         /\ lastAI' = AIStep(data, wants, <<>>)
                         /\ UNCHANGED inFlight
                    ELSE IF ClientOf(aiProvider) = Null
                    THEN /\ posted' = <<ErrorResponse(NotInitialized(aiProvider),
                                                      aiProvider)>>
                         /\ lastAI' = AIStep(data, wants, <<>>)
                         /\ UNCHANGED inFlight
                    ELSE /\ Len(inFlight) < MaxInFlight
                         /\ inFlight' = Append(inFlight,
                                [call |-> FreeCall,
                                 data |-> data, aiProvider |-> aiProvider,
                                 prompt |-> prompt,
                                 currentContext |-> currentContext])
                         /\ posted' = <<>>
                         /\ lastAI' = AIStep(data, wants,
                                <<[provider |-> aiProvider, prompt |-> prompt]>>)

AIRequest ==
    /\ Idle
    /\ \E data \in AIRequests : handleAIRequest(data)
    /\ didWrite' = FALSE
    /\ UNCHANGED <<now, conversations, config, openaiClient, anthropicClient,
                   editor, workspaceName, scenario, storage, saving, uiVars>>

\* variant: the settled call is kept, so it can be answered again
WithoutNone(s, i) == s

\* webview.postMessage: the messages of this step join those on their way to
\* the panel whose state is followed
Delivery == IF panel = NoPanel THEN toPanel ELSE toPanel \o posted'

Without(s, i) == SubSeq(s, 1, i - 1) \o SubSeq(s, i + 1, Len(s))

\* handleAIRequest after the await: the provider call resolved
ProviderReturns ==
    /\ Idle
    /\ \E i \in 1..Len(inFlight), text \in Completions :
         /\ posted' = <<SuccessResponse(inFlight[i], ResponseText(text))>>
         /\ lastReq' = [type |-> "provider-returned", at |-> now,
                        data |-> inFlight[i].data, call |-> inFlight[i].call]
         /\ inFlight' = Without(inFlight, i)
    /\ lastAI' = [type |-> "none"]
    /\ didWrite' = FALSE
    /\ UNCHANGED <<now, conversations, config, openaiClient, anthropicClient,
                   editor, workspaceName, scenario, storage, saving, refVars, webviewVars>>
    /\ toPanel' = Delivery

\* handleAIRequest after the await: the provider call rejected
ProviderThrows ==
    /\ Idle
    /\ \E i \in 1..Len(inFlight), errorMessage \in Failures :
         /\ posted' = <<ErrorResponse(errorMessage, inFlight[i].aiProvider)>>
         /\ lastReq' = [type |-> "provider-threw", at |-> now,
                        data |-> inFlight[i].data, call |-> inFlight[i].call,
                        error |-> errorMessage]
         /\ inFlight' = Without(inFlight, i)
    /\ lastAI' = [type |-> "none"]
    /\ didWrite' = FALSE
    /\ UNCHANGED <<now, conversations, config, openaiClient, anthropicClient,
                   editor, workspaceName, scenario, storage, saving, refVars, webviewVars>>
    /\ toPanel' = Delivery

(* ---------------------------- settings-save ---------------------------- *)
\* the settings handleSettingsSave updates, in the order of its awaits; the
\* two model names are not part of `config`
SettingKeys ==
    <<"aiProvider", "openaiApiKey", "claudeApiKey", "openaiModel", "claudeModel">>

\* config after `await config.update(key, data[key], Global)`
UpdatedConfig(cfg, key, data) ==
    IF key \in DOMAIN cfg THEN [cfg EXCEPT ![key] = data[key]] ELSE cfg

SettingsSavedMessage ==
    [type |-> "settings-saved",
     data |-> [success |-> TRUE, message |-> "Settings saved successfully!"]]

SettingsFailedMessage(errorMessage) ==
    [type |-> "settings-saved",
     data |-> [success |-> FALSE,
               message |-> <<"Failed to save settings:">> \o errorMessage]]

\* variant: the init message reports the key of the saved settings
UpdatedInitMessageOfData(cfg, data) ==
    [type |-> "init",
     data |-> [status |-> "Extension ready", aiProvider |-> data.aiProvider,
               hasApiKey |-> getApiKey(data, data.aiProvider) # ""]]

UpdatedInitMessage(cfg, data) ==
    [type |-> "init",
     data |-> [status |-> "Extension ready", aiProvider |-> data.aiProvider,
               hasApiKey |-> getApiKey(cfg, data.aiProvider) # ""]]

\* what handleAIRequest takes from a settings record: the provider, the key
\* it checks and the client initializeAIClients builds for that provider
SettingsUsed(cfg) ==
    [provider |-> cfg.aiProvider,
     key |-> getApiKey(cfg, cfg.aiProvider),
     client |-> IF cfg.aiProvider = "openai" THEN NewClient(cfg.openaiApiKey)
                ELSE IF cfg.aiProvider = "claude" THEN NewClient(cfg.claudeApiKey)
                ELSE Null]

\* handleSettingsSave up to its first await; `found` remembers what an
\* ai-request took from the settings when the handler was invoked, if no
\* other save was changing them
handleSettingsSave(data) ==
    /\ saving' = Append(saving,
                        [data |-> data, next |-> 1,
                         found |-> IF saving = <<>> THEN <<SettingsUsed(config)>>
                                   ELSE <<>>])
    /\ posted' = <<>>
    /\ lastReq' = [type |-> "settings-save", at |-> now, data |-> data]

SettingsSave ==
    /\ Idle
    /\ Len(saving) < MaxSaving
    /\ \E data \in Configs : handleSettingsSave(data)
    /\ didWrite' = FALSE
    /\ lastAI' = [type |-> "none"]
    /\ UNCHANGED <<now, conversations, hostVars, scenario, storage, uiVars>>

\* an awaited config.update resolves: the setting is written, the
\* configuration-change listener has run initializeAIClients, and the handler
\* goes on to its next await or, after the fifth, re-initializes the clients
\* and posts settings-saved and init
SettingsUpdated ==
    /\ Idle
    /\ \E i \in 1..Len(saving) :
         LET data == saving[i].data
             next == saving[i].next
             cfg == UpdatedConfig(config, SettingKeys[next], data)
         IN  /\ config' = cfg
             /\ initializeAIClients(cfg)
             /\ IF next < Len(SettingKeys)
                THEN /\ saving' = [saving EXCEPT ![i].next = next + 1]
                     /\ posted' = <<>>
                     /\ lastReq' = [type |-> "settings-updated", at |-> now,
                                    data |-> data, key |-> SettingKeys[next]]
                ELSE /\ saving' = Without(saving, i)
                     /\ posted' = <<SettingsSavedMessage,
                                    UpdatedInitMessage(cfg, data)>>
                     /\ lastReq' = [type |-> "settings-saved", at |-> now,
                                    data |-> data, key |-> SettingKeys[next]]
    /\ toPanel' = Delivery
    /\ didWrite' = FALSE
    /\ lastAI' = [type |-> "none"]
    /\ UNCHANGED <<now, conversations, editor, workspaceName, inFlight,
                   scenario, storage, refVars, webviewVars>>

\* an awaited config.update rejects: the catch block answers
SettingsUpdateFails ==
    /\ Idle
    /\ \E i \in 1..Len(saving), errorMessage \in Failures :
         /\ saving' = Without(saving, i)
         /\ posted' = <<SettingsFailedMessage(errorMessage)>>
         /\ lastReq' = [type |-> "settings-failed", at |-> now,
                        data |-> saving[i].data]
    /\ toPanel' = Delivery
    /\ didWrite' = FALSE
    /\ lastAI' = [type |-> "none"]
    /\ UNCHANGED <<now, conversations, hostVars, scenario, storage, refVars,
                   webviewVars>>

handleSettingsGet ==
    /\ posted' = <<[type |-> "settings-data", data |-> config]>>
    /\ lastReq' = [type |-> "settings-get", at |-> now]

\* a settings-get message of some panel
SettingsGet ==
    /\ Idle
    /\ handleSettingsGet
    /\ didWrite' = FALSE
    /\ lastAI' = [type |-> "none"]
    /\ UNCHANGED <<now, conversations, hostVars, scenario, storage, saving, uiVars>>

(* ------------------------- webview panel ------------------------------ *)
\* String.prototype.trim on a text of tokens, " " being a whitespace token
RECURSIVE TrimStart(_)
TrimStart(text) ==
    IF text # <<>> /\ Head(text) = " " THEN TrimStart(Tail(text)) ELSE text

RECURSIVE TrimEnd(_)
TrimEnd(text) ==
    IF text # <<>> /\ text[Len(text)] = " "
    THEN TrimEnd(SubSeq(text, 1, Len(text) - 1))
    ELSE text

Trim(text) == TrimEnd(TrimStart(text))

\* the useState initial values: the state the first render sees
FirstRender ==
    [currentView |-> "main", listening |-> FALSE, transcript |-> <<>>,
     finalTranscript |-> <<>>, error |-> Null, isSupported |-> FALSE,
     aiResponse |-> <<>>, aiLoading |-> FALSE, aiProvider |-> "openai",
     hasApiKey |-> FALSE, includeContext |-> TRUE, settingsLoading |-> FALSE,
     conversations |-> <<>>, currentConversation |-> Null,
     conversationMessages |-> <<>>, conversationTitle |-> <<>>,
     isNewConversation |-> TRUE]

\* the state once the mount effects have run: window.SpeechRecognition is
\* there or not
Mounted(supported) ==
    IF supported
    THEN [FirstRender EXCEPT !.isSupported = TRUE]
    ELSE [FirstRender EXCEPT
            !.error = <<"Speech recognition not supported in this browser">>]

\* what a panel function does: the state its setters leave, the messages it
\* posts to the host, the recognizer method it calls
Effect(st, sent, call) == [st |-> st, sent |-> sent, call |-> call]

\* `seen` is the state the function's closure reads, `st` the state its
\* setters write
toggleListening(seen, st) ==
    IF ~seen.isSupported THEN Effect(st, <<>>, "none")
    ELSE IF seen.listening THEN Effect(st, <<>>, "stop")
    ELSE Effect([st EXCEPT !.transcript = <<>>, !.error = Null], <<>>, "start")

\* variant: clearing the transcript also ends the loading state
clearTranscriptAndLoading(st) ==
    Effect([st EXCEPT !.transcript = <<>>, !.finalTranscript = <<>>,
                      !.aiResponse = <<>>, !.aiLoading = FALSE],
           <<>>, "none")

clearTranscript(st) ==
    Effect([st EXCEPT !.transcript = <<>>, !.finalTranscript = <<>>,
                      !.aiResponse = <<>>],
           <<>>, "none")

sendToAI(seen, st) ==
    IF Trim(seen.finalTranscript) = <<>>
    THEN Effect([st EXCEPT !.error = <<"No transcript to send to AI">>],
                <<>>, "none")
    ELSE IF ~seen.hasApiKey
    THEN Effect([st EXCEPT !.error = <<"No API key configured for",
                                       seen.aiProvider,
                                       ". Please configure it in the Settings.">>],
                <<>>, "none")
    ELSE Effect([st EXCEPT !.aiLoading = TRUE, !.error = Null],
                <<[type |-> "ai-request",
                   data |-> [prompt |-> seen.finalTranscript,
                             context |-> "Voice transcription for AI processing",
                             includeContext |-> seen.includeContext]]>>,
                "none")

openSettings(st) ==
    Effect([st EXCEPT !.currentView = "settings", !.settingsLoading = TRUE,
                      !.error = Null],
           <<[type |-> "settings-get"]>>, "none")

\* `settings` is the content of the form, which the user has edited
saveSettings(settings, st) ==
    Effect([st EXCEPT !.settingsLoading = TRUE, !.error = Null],
           <<[type |-> "settings-save", data |-> settings]>>, "none")

closeSettings(st) ==
    Effect([st EXCEPT !.currentView = "main", !.error = Null], <<>>, "none")

startNewConversation(st) ==
    Effect([st EXCEPT !.currentConversation = Null,
                      !.conversationMessages = <<>>,
                      !.conversationTitle = <<>>, !.isNewConversation = TRUE,
                      !.finalTranscript = <<>>, !.aiResponse = <<>>,
                      !.currentView = "main"],
           <<>>, "none")

\* the transcripts of the model are shorter than the 50 characters a title
\* is cut to
SavedTitle(seen) ==
    IF seen.conversationTitle # <<>> THEN seen.conversationTitle
    ELSE seen.finalTranscript

SavedMessages(seen) ==
    seen.conversationMessages
    \o (IF Trim(seen.finalTranscript) # <<>>
        THEN <<Message("user", seen.finalTranscript)>> ELSE <<>>)
    \o (IF Trim(seen.aiResponse) # <<>>
        THEN <<Message("assistant", seen.aiResponse)>> ELSE <<>>)

\* `currentConversation?.id`
CurrentId(seen) ==
    IF seen.currentConversation # Null THEN seen.currentConversation[1].id
    ELSE NoId

saveCurrentConversation(seen, st) ==
    IF seen.finalTranscript = <<>> /\ seen.conversationMessages = <<>>
    THEN Effect([st EXCEPT !.error = <<"No conversation to save">>],
                <<>>, "none")
    ELSE Effect(st,
                <<[type |-> "conversation-save",
                   data |-> [conversationId |-> CurrentId(seen),
                             title |-> SavedTitle(seen),
                             messages |-> SavedMessages(seen)]]>>,
                "none")

loadConversation(conversationId, st) ==
    Effect(st, <<[type |-> "conversation-load",
                  data |-> [conversationId |-> conversationId]]>>, "none")

openHistory(st) ==
    Effect([st EXCEPT !.currentView = "history"],
           <<[type |-> "conversation-list"]>>, "none")

closeHistory(st) == Effect([st EXCEPT !.currentView = "main"], <<>>, "none")

ShortcutActions ==
    {"toggle-listening", "send-to-ai", "clear-transcript", "open-settings",
     "open-history", "save-conversation"}

\* variant: the shortcut handler reads the state of the current render
handleKeyboardShortcutCurrent(data, seen, st) ==
    CASE data.action = "toggle-listening" -> toggleListening(st, st)
      [] data.action = "send-to-ai" -> sendToAI(st, st)
      [] data.action = "clear-transcript" -> clearTranscript(st)
      [] data.action = "open-settings" -> openSettings(st)
      [] data.action = "open-history" -> openHistory(st)
      [] data.action = "save-conversation" -> saveCurrentConversation(st, st)
      [] OTHER -> Effect(st, <<>>, "none")

handleKeyboardShortcut(data, seen, st) ==
    CASE data.action = "toggle-listening" -> toggleListening(seen, st)
      [] data.action = "send-to-ai" -> sendToAI(seen, st)
      [] data.action = "clear-transcript" -> clearTranscript(st)
      [] data.action = "open-settings" -> openSettings(st)
      [] data.action = "open-history" -> openHistory(st)
      [] data.action = "save-conversation" -> saveCurrentConversation(seen, st)
      [] OTHER -> Effect(st, <<>>, "none")

LastOf(messages, type) ==
    LET those == SelectSeq(messages, LAMBDA m : m.type = type)
    IN  IF those # <<>> THEN <<those[Len(those)]>> ELSE <<>>

\* setCurrentConversation(prev => prev ? {...prev, id} : null)
WithSavedId(prev, conversationId) ==
    IF prev # Null THEN <<[prev[1] EXCEPT !.id = conversationId]>> ELSE Null

ConversationLoaded(data, st) ==
    LET lastUserMessage == LastOf(data.messages, "user")
        lastAssistantMessage == LastOf(data.messages, "assistant")
    IN  [st EXCEPT
           !.currentConversation = <<data>>,
           !.conversationMessages = data.messages,
           !.conversationTitle = data.title,
           !.isNewConversation = FALSE,
           !.finalTranscript =
               IF lastUserMessage # <<>>
               THEN lastUserMessage[1].content ELSE @,
           !.aiResponse =
               IF lastAssistantMessage # <<>>
               THEN lastAssistantMessage[1].content ELSE @]

\* messageHandler is registered once, by the mount effect, so the panel
\* functions it calls are those of the first render
messageHandler(message, st) ==
    CASE message.type = "init" ->
           Effect([st EXCEPT !.aiProvider = message.data.aiProvider,
                             !.hasApiKey = message.data.hasApiKey],
                  <<[type |-> "context-get"]>>, "none")
      [] message.type = "ai-response" ->
           Effect([st EXCEPT !.aiResponse = message.data.response,
                             !.aiLoading = FALSE,
                             !.error = IF message.data.status = "error"
                                       THEN message.data.response ELSE Null],
                  <<>>, "none")
      [] message.type = "error" ->
           Effect([st EXCEPT !.error = <<message.data.message>>,
                             !.aiLoading = FALSE],
                  <<>>, "none")
      [] message.type = "settings-data" ->
           Effect([st EXCEPT !.settingsLoading = FALSE], <<>>, "none")
      [] message.type = "settings-saved" ->
           Effect([st EXCEPT !.settingsLoading = FALSE,
                             !.error = IF message.data.success THEN @
                                       ELSE <<message.data.message>>],
                  <<>>, "none")
      [] message.type = "conversation-saved" ->
           IF message.data.success
           THEN Effect([st EXCEPT
                          !.currentConversation =
                              WithSavedId(@, message.data.conversationId),
                          !.isNewConversation = FALSE],
                       <<>>, "none")
           ELSE Effect([st EXCEPT !.error = <<message.data.message>>],
                       <<>>, "none")
      [] message.type = "conversation-loaded" ->
           IF "error" \in DOMAIN message.data
           THEN Effect([st EXCEPT !.error = <<message.data.error>>],
                       <<>>, "none")
           ELSE Effect(ConversationLoaded(message.data, st), <<>>, "none")
      [] message.type = "conversation-list" ->
           Effect([st EXCEPT !.conversations = message.data], <<>>, "none")
      [] message.type = "conversation-deleted" ->
           Effect([st EXCEPT !.error = IF message.data.success THEN @
                                       ELSE <<message.data.message>>],
                  <<>>, "none")
      [] message.type = "conversation-new" -> startNewConversation(st)
      [] message.type = "keyboard-shortcut" ->
           handleKeyboardShortcut(message.data, FirstRender, st)
      [] OTHER -> Effect(st, <<>>, "none")

\* SpeechRecognition.start() and stop(), and the events the recognizer
\* raises; start() on a recognizer that is not idle throws and changes nothing
Called(state, call) ==
    CASE call = "start" /\ state = "idle" -> "starting"
      [] call = "stop" /\ state \in {"starting", "running"} -> "stopping"
      [] call = "onstart" -> "running"
      [] call = "onerror" -> "ending"
      [] call = "onend" -> "idle"
      [] OTHER -> state

\* a step of the webview: history of the host is that of a step it did not take
PanelStep(effect, event) ==
    /\ panel' = effect.st
    /\ toHost' = toHost \o effect.sent
    /\ recognizer' = Called(recognizer, effect.call)
    /\ posted' = <<>>
    /\ lastReq' = event
    /\ didWrite' = FALSE
    /\ lastAI' = [type |-> "none"]
    /\ UNCHANGED <<now, conversations, hostVars, scenario, storage, saving, refVars>>

\* the user acts when the messages of earlier actions have been handled
Quiet == toHost = <<>> /\ toPanel = <<>>

Tracked == panel # NoPanel

PanelReceives ==
    /\ Tracked
    /\ toPanel # <<>>
    /\ toPanel' = Tail(toPanel)
    /\ PanelStep(messageHandler(Head(toPanel), panel),
                 [type |-> "panel-message", at |-> now, message |-> Head(toPanel)])

\* a message posted to the webview is not delivered (it was not loaded, or
\* hidden)
MessageLost ==
    /\ Tracked
    /\ toPanel # <<>>
    /\ toPanel' = Tail(toPanel)
    /\ PanelStep(Effect(panel, <<>>, "none"),
                 [type |-> "message-lost", at |-> now, message |-> Head(toPanel)])

Click(button, effect) ==
    /\ Tracked
    /\ Quiet
    /\ UNCHANGED toPanel
    /\ PanelStep(effect, [type |-> "click", at |-> now, button |-> button])

ClickToggleListening ==
    /\ Tracked /\ panel.currentView = "main" /\ panel.isSupported
    /\ Click("toggleListening", toggleListening(panel, panel))

ClickClearTranscript ==
    /\ Tracked /\ panel.currentView = "main"
    /\ Click("clearTranscript", clearTranscript(panel))

ClickSendToAI ==
    /\ Tracked /\ panel.currentView = "main"
    /\ ~(Trim(panel.finalTranscript) = <<>> \/ panel.aiLoading \/ ~panel.hasApiKey)
    /\ Click("sendToAI", sendToAI(panel, panel))

ClickSaveConversation ==
    /\ Tracked /\ panel.currentView = "main"
    /\ ~(Trim(panel.finalTranscript) = <<>> /\ Trim(panel.aiResponse) = <<>>)
    /\ Len(SavedMessages(panel)) <= MaxMessages
    /\ Click("saveConversation", saveCurrentConversation(panel, panel))

ClickOpenSettings ==
    /\ Tracked /\ panel.currentView = "main"
    /\ Click("openSettings", openSettings(panel))

ClickCloseSettings ==
    /\ Tracked /\ panel.currentView = "settings"
    /\ Click("closeSettings", closeSettings(panel))

ClickSaveSettings ==
    /\ Tracked /\ panel.currentView = "settings" /\ ~panel.settingsLoading
    /\ \E settings \in Configs :
         Click("saveSettings", saveSettings(settings, panel))

ClickOpenHistory ==
    /\ Tracked /\ panel.currentView = "main"
    /\ Click("openHistory", openHistory(panel))

ClickCloseHistory ==
    /\ Tracked /\ panel.currentView = "history"
    /\ Click("closeHistory", closeHistory(panel))

ClickNewConversation ==
    /\ Tracked /\ panel.currentView = "history"
    /\ Click("startNewConversation", startNewConversation(panel))

ClickLoadConversation ==
    /\ Tracked /\ panel.currentView = "history"
    /\ \E i \in 1..Len(panel.conversations) :
         Click("loadConversation",
               loadConversation(panel.conversations[i].id, panel))

(* ----------------------------- recognizer ------------------------------ *)
\* what the recognizer hears in one final result
Spoken == {<<"fix", "it">>, <<" ">>}
\* SpeechRecognitionErrorEvent.error
RecognizerErrors == {"no-speech", "not-allowed"}

RecognizerEvent(effect, event) ==
    /\ Tracked
    /\ Quiet
    /\ UNCHANGED toPanel
    /\ PanelStep(effect, event)

\* recognition.onstart
RecognizerStarts ==
    /\ recognizer = "starting"
    /\ RecognizerEvent(
          Effect([panel EXCEPT !.error = Null, !.listening = TRUE],
                 <<[type |-> "status", data |-> [listening |-> TRUE]]>>,
                 "onstart"),
          [type |-> "onstart", at |-> now])

\* recognition.onresult with one final result
RecognizerResult ==
    /\ recognizer \in {"running", "stopping"}
    /\ \E finalTranscriptLocal \in Spoken :
         LET newFinalTranscript == panel.finalTranscript \o finalTranscriptLocal
         IN  /\ Len(newFinalTranscript) <= MaxWords
             /\ RecognizerEvent(
                   Effect([panel EXCEPT !.transcript = <<>>,
                                        !.finalTranscript = newFinalTranscript],
                          <<[type |-> "transcript",
                             data |-> [finalTranscript |-> newFinalTranscript,
                                       interimTranscript |-> <<>>,
                                       isListening |-> TRUE]]>>,
                          "none"),
                   [type |-> "onresult", at |-> now])

ErrorText(code) == <<"Speech recognition error:", code>>

\* recognition.onerror
RecognizerError ==
    /\ recognizer \in {"starting", "running", "stopping"}
    /\ \E code \in RecognizerErrors :
         RecognizerEvent(
            Effect([panel EXCEPT !.error = ErrorText(code), !.listening = FALSE],
                   <<[type |-> "error", data |-> [message |-> ErrorText(code)]]>>,
                   "onerror"),
            [type |-> "onerror", at |-> now, error |-> code])

\* recognition.onend
RecognizerEnds ==
    /\ recognizer \in {"running", "stopping", "ending"}
    /\ RecognizerEvent(
          Effect([panel EXCEPT !.listening = FALSE],
                 <<[type |-> "status", data |-> [listening |-> FALSE]]>>,
                 "onend"),
          [type |-> "onend", at |-> now])

(* ------------------- host: messages of the panel ---------------------- *)
handleTranscriptMessage(data) ==
    /\ posted' = <<[type |-> "transcript-ack",
                    data |-> [received |-> TRUE, timestamp |-> now]]>>
    /\ lastReq' = [type |-> "transcript", at |-> now, data |-> data]

\* variant: the error is also sent back to the panel
handleErrorEchoed(data) ==
    /\ posted' = <<[type |-> "error", data |-> data]>>
    /\ lastReq' = [type |-> "error", at |-> now, data |-> data,
                   notification |-> <<"CursorVoice Error:">> \o data.message]

\* showErrorMessage; nothing is posted
handleError(data) ==
    /\ posted' = <<>>
    /\ lastReq' = [type |-> "error", at |-> now, data |-> data,
                   notification |-> <<"CursorVoice Error:">> \o data.message]

\* setStatusBarMessage; nothing is posted
handleStatus(data) ==
    /\ posted' = <<>>
    /\ lastReq' = [type |-> "status", at |-> now, data |-> data]

\* panel.webview.onDidReceiveMessage, for the panel whose state is followed
HostReceives ==
    /\ Tracked
    /\ toHost # <<>>
    /\ LET message == Head(toHost)
           Only(handled) ==
               /\ handled
               /\ didWrite' = FALSE
               /\ lastAI' = [type |-> "none"]
               /\ UNCHANGED <<conversations, inFlight, saving>>
       IN  IF message.type = "ai-request"
           THEN /\ handleAIRequest(message.data)
                /\ didWrite' = FALSE
                /\ UNCHANGED <<conversations, saving>>
           ELSE IF message.type = "conversation-save"
           THEN /\ message.data.conversationId = NoId
                     => Len(conversations) < MaxConvs
                /\ handleConversationSave(message.data)
                /\ lastAI' = [type |-> "none"]
                /\ UNCHANGED <<inFlight, saving>>
           ELSE IF message.type = "conversation-load"
           THEN /\ handleConversationLoad(message.data)
                /\ lastAI' = [type |-> "none"]
                /\ UNCHANGED <<inFlight, saving>>
           ELSE IF message.type = "conversation-list"
           THEN /\ handleConversationList
                /\ lastAI' = [type |-> "none"]
                /\ UNCHANGED <<inFlight, saving>>
           ELSE IF message.type = "settings-save"
           THEN /\ Len(saving) < MaxSaving
                /\ handleSettingsSave(message.data)
                /\ didWrite' = FALSE
                /\ lastAI' = [type |-> "none"]
                /\ UNCHANGED <<conversations, inFlight>>
           ELSE IF message.type = "transcript"
           THEN Only(handleTranscriptMessage(message.data))
           ELSE IF message.type = "error"
           THEN Only(handleError(message.data))
           ELSE IF message.type = "status"
           THEN Only(handleStatus(message.data))
           ELSE IF message.type = "settings-get"
           THEN Only(handleSettingsGet)
           ELSE Only(handleContextGet)
    /\ toHost' = Tail(toHost)
    /\ toPanel' = toPanel \o posted'
    /\ UNCHANGED <<now, config, openaiClient, anthropicClient, editor,
                   workspaceName, scenario, storage, refVars, panel, recognizer>>

(* ------------------------------ commands ------------------------------ *)
PanelIds == 1..MaxPanels

InitMessage(cfg) ==
    [type |-> "init",
     data |-> [status |-> "Extension ready", aiProvider |-> cfg.aiProvider,
               hasApiKey |-> getApiKey(cfg, cfg.aiProvider) # ""]]

\* command cursor-voice.open; the state of the new webview is not followed
OpenCommand ==
    /\ ~Tracked
    /\ \E id \in PanelIds \ openPanels :
         /\ openPanels' = openPanels \cup {id}
         /\ globalWebviewPanel' = <<id>>
         /\ lastReq' = [type |-> "command", at |-> now,
                        command |-> "cursor-voice.open", target |-> <<id>>,
                        warning |-> Null]
    /\ posted' = <<InitMessage(config)>>
    /\ didWrite' = FALSE
    /\ lastAI' = [type |-> "none"]
    /\ UNCHANGED <<now, conversations, hostVars, scenario, storage, saving, webviewVars, toPanel>>

\* variant: the disposal of a panel leaves the reference as it is
DisposedReferenceKept == globalWebviewPanel

\* the reference after the onDidDispose listener of any panel has run
DisposedReference == Null

\* panel.onDidDispose of any panel the command created
PanelDisposed ==
    /\ ~Tracked
    /\ \E id \in openPanels :
         /\ openPanels' = openPanels \ {id}
         /\ lastReq' = [type |-> "disposed", at |-> now, target |-> <<id>>]
    /\ globalWebviewPanel' = DisposedReference
    /\ posted' = <<>>
    /\ didWrite' = FALSE
    /\ lastAI' = [type |-> "none"]
    /\ UNCHANGED <<now, conversations, hostVars, scenario, storage, saving, webviewVars, toPanel>>

ShortcutCommands ==
    {[command |-> "cursor-voice.toggleListening", action |-> "toggle-listening"],
     [command |-> "cursor-voice.sendToAI", action |-> "send-to-ai"],
     [command |-> "cursor-voice.clearTranscript", action |-> "clear-transcript"],
     [command |-> "cursor-voice.openSettings", action |-> "open-settings"],
     [command |-> "cursor-voice.openHistory", action |-> "open-history"],
     [command |-> "cursor-voice.saveConversation", action |-> "save-conversation"]}

PanelNotOpen ==
    <<"CursorVoice panel is not open. Open it first with Ctrl+Shift+P > \"Open CursorVoice\"">>

\* variant: every command posts the action of the first one
KeyboardShortcutActionCopied(shortcut) == "toggle-listening"

KeyboardShortcutAction(shortcut) == shortcut.action

KeyboardShortcutMessage(shortcut) ==
    [type |-> "keyboard-shortcut",
     data |-> [action |-> KeyboardShortcutAction(shortcut)]]

\* the six shortcut commands
ShortcutCommand ==
    /\ Tracked => Quiet
    /\ \E shortcut \in ShortcutCommands :
         IF globalWebviewPanel # Null
         THEN /\ posted' = <<KeyboardShortcutMessage(shortcut)>>
              /\ lastReq' = [type |-> "command", at |-> now,
                             command |-> shortcut.command,
                             target |-> globalWebviewPanel, warning |-> Null]
         ELSE /\ posted' = <<>>
              /\ lastReq' = [type |-> "command", at |-> now,
                             command |-> shortcut.command,
                             target |-> Null, warning |-> PanelNotOpen]
    /\ toPanel' = Delivery
    /\ didWrite' = FALSE
    /\ lastAI' = [type |-> "none"]
    /\ UNCHANGED <<now, conversations, hostVars, scenario, storage, saving, refVars, webviewVars>>

(* --------------------------- specifications ---------------------------- *)
InitHost ==
    /\ now = 0
    /\ conversations = <<>>
    /\ config = DefaultConfig
    /\ openaiClient = NewClient(DefaultConfig.openaiApiKey)
    /\ anthropicClient = NewClient(DefaultConfig.claudeApiKey)
    /\ editor = NoEditor
    /\ workspaceName = <<>>
    /\ inFlight = <<>>
    /\ posted = <<>>
    /\ lastReq = [type |-> "none", at |-> 0]
    /\ didWrite = FALSE
    /\ lastAI = [type |-> "none"]
    /\ globalWebviewPanel = Null
    /\ openPanels = {}
    /\ panel = NoPanel
    /\ recognizer = "none"
    /\ toHost = <<>>
    /\ toPanel = <<>>
    /\ storage = "ok"
    /\ saving = <<>>

Init ==
    /\ InitHost
    /\ scenario = [pc |-> "idle"]

NextStore ==
    \/ ConversationSave
    \/ ConversationLoad
    \/ ConversationList
    \/ ConversationDelete
    \/ Tick

NextAI ==
    \/ ConfigurationChanged
    \/ EditorChanged
    \/ AIRequest
    \/ ProviderReturns
    \/ ProviderThrows

Next == NextStore \/ NextAI

Spec == Init /\ [][Next]_vars

\* the conversation store alone
SpecStore == Init /\ [][NextStore]_vars

\* the store behind globalState starts or stops taking writes
StorageChanges ==
    /\ storage' = IF storage = "ok" THEN "failing" ELSE "ok"
    /\ posted' = <<>>
    /\ lastReq' = [type |-> "storage", at |-> now]
    /\ didWrite' = FALSE
    /\ lastAI' = [type |-> "none"]
    /\ UNCHANGED <<now, conversations, hostVars, scenario, uiVars, saving>>

NextStoreFailing == NextStore \/ StorageChanges

\* the conversation store when writes can fail
SpecStoreFailing == Init /\ [][NextStoreFailing]_vars

NextContext ==
    \/ DocumentOpened
    \/ ContextGet

\* the code-context snapshot alone
SpecContext == Init /\ [][NextContext]_vars

\* the ai-request relay alone
SpecAI == Init /\ [][NextAI]_vars

\* the pending provider call `call` settles: its promise resolves or rejects
Settles(call) ==
    /\ ProviderReturns \/ ProviderThrows
    /\ lastReq'.call = call

NextAILive ==
    \/ ConfigurationChanged
    \/ AIRequest
    \/ ProviderReturns
    \/ ProviderThrows

\* the ai-request relay with no editor open, when every provider call
\* returns or throws
SpecAILive ==
    /\ Init
    /\ [][NextAILive]_vars
    /\ \A call \in Calls : WF_vars(Settles(call))


\* the state after activation with any stored configuration, command
\* cursor-voice.open and the mount of the webview
InitWebview ==
    /\ now = 0
    /\ conversations = <<>>
    /\ config \in Configs
    /\ openaiClient = NewClient(config.openaiApiKey)
    /\ anthropicClient = NewClient(config.claudeApiKey)
    /\ editor = NoEditor
    /\ workspaceName = <<>>
    /\ inFlight = <<>>
    /\ posted = <<InitMessage(config)>>
    /\ lastReq = [type |-> "command", at |-> 0, command |-> "cursor-voice.open",
                  target |-> <<1>>, warning |-> Null]
    /\ didWrite = FALSE
    /\ lastAI = [type |-> "none"]
    /\ scenario = [pc |-> "idle"]
    /\ globalWebviewPanel = <<1>>
    /\ openPanels = {1}
    /\ \E supported \in BOOLEAN :
         /\ panel = Mounted(supported)
         /\ recognizer = IF supported THEN "idle" ELSE "none"
    /\ toHost = <<>>
    /\ toPanel = <<InitMessage(config)>>
    /\ storage = "ok"
    /\ saving = <<>>

NextPanelAI ==
    \/ ClickToggleListening
    \/ RecognizerStarts
    \/ RecognizerResult
    \/ RecognizerEnds
    \/ ClickSendToAI
    \/ ClickClearTranscript
    \/ HostReceives
    \/ ProviderReturns
    \/ ProviderThrows
    \/ PanelReceives
    \/ MessageLost
    \/ Tick

\* the panel and the host around an ai-request
SpecPanelAI == InitWebview /\ [][NextPanelAI]_vars

NextPanelSave ==
    \/ ClickToggleListening
    \/ RecognizerStarts
    \/ RecognizerResult
    \/ RecognizerEnds
    \/ ClickSaveConversation
    \/ ClickOpenHistory
    \/ ClickCloseHistory
    \/ ClickNewConversation
    \/ ClickLoadConversation
    \/ HostReceives
    \/ PanelReceives

\* the panel and the host's conversation store, no key configured
InitPanelSave == InitWebview /\ config = DefaultConfig

SpecPanelSave == InitPanelSave /\ [][NextPanelSave]_vars

NextCommands ==
    \/ OpenCommand
    \/ PanelDisposed
    \/ ShortcutCommand
    \/ ConfigurationChanged
    \/ Tick

\* the commands of the extension and the panel reference they share
SpecCommands == Init /\ [][NextCommands]_vars

NextShortcut ==
    \/ ShortcutCommand
    \/ PanelReceives
    \/ HostReceives
    \/ ClickToggleListening
    \/ RecognizerStarts
    \/ RecognizerResult
    \/ RecognizerEnds
    \/ ClickOpenSettings
    \/ ClickCloseSettings
    \/ ClickCloseHistory

\* the panel driven by the shortcut commands
SpecShortcut == InitWebview /\ [][NextShortcut]_vars

NextRecognizer ==
    \/ ClickToggleListening
    \/ ClickClearTranscript
    \/ RecognizerStarts
    \/ RecognizerResult
    \/ RecognizerError
    \/ RecognizerEnds
    \/ HostReceives
    \/ PanelReceives

\* the panel, its recognizer and the host's handling of their messages
SpecRecognizer == InitWebview /\ [][NextRecognizer]_vars

\* activation with any stored configuration
InitSettings ==
    /\ now = 0
    /\ conversations = <<>>
    /\ config \in Configs
    /\ openaiClient = NewClient(config.openaiApiKey)
    /\ anthropicClient = NewClient(config.claudeApiKey)
    /\ editor = NoEditor
    /\ workspaceName = <<>>
    /\ inFlight = <<>>
    /\ posted = <<>>
    /\ lastReq = [type |-> "none", at |-> 0]
    /\ didWrite = FALSE
    /\ lastAI = [type |-> "none"]
    /\ scenario = [pc |-> "idle"]
    /\ globalWebviewPanel = Null
    /\ openPanels = {}
    /\ panel = NoPanel
    /\ recognizer = "none"
    /\ toHost = <<>>
    /\ toPanel = <<>>
    /\ storage = "ok"
    /\ saving = <<>>

NextSettings ==
    \/ ConfigurationChanged
    \/ SettingsGet
    \/ SettingsSave
    \/ SettingsUpdated
    \/ SettingsUpdateFails

\* the configuration, the settings-save handler and the provider clients
SpecSettings == InitSettings /\ [][NextSettings]_vars

NextPanelSend ==
    \/ ClickToggleListening
    \/ RecognizerStarts
    \/ RecognizerResult
    \/ RecognizerEnds
    \/ ClickSendToAI
    \/ ClickClearTranscript
    \/ ClickCloseSettings
    \/ ClickCloseHistory
    \/ ShortcutCommand
    \/ HostReceives
    \/ ProviderReturns
    \/ ProviderThrows
    \/ PanelReceives
    \/ MessageLost

\* the send button and the shortcut commands around an ai-request
SpecPanelSend == InitWebview /\ [][NextPanelSend]_vars

NextSettingsAI ==
    \/ SettingsSave
    \/ SettingsUpdated
    \/ SettingsUpdateFails
    \/ AIRequest
    \/ ProviderReturns
    \/ ProviderThrows

\* ai-requests arriving while handleSettingsSave awaits its updates
SpecSettingsAI == InitSettings /\ [][NextSettingsAI]_vars

NextPanelConfig ==
    \/ ConfigurationChanged
    \/ ClickOpenSettings
    \/ ClickSaveSettings
    \/ SettingsUpdated
    \/ HostReceives
    \/ PanelReceives

\* the panel's settings view, the settings handlers and changes of the
\* configuration made elsewhere
SpecPanelConfig == InitWebview /\ [][NextPanelConfig]_vars

(* --------------------------- example session --------------------------- *)
\* spec section 8: save, list, load, delete, list on an empty store
Contents == {<<"hello">>, <<"hello", "world">>}
ScenarioTitles == {<<"test">>, <<"notes">>}

InitScenario ==
    /\ InitHost
    /\ \E title \in ScenarioTitles, m \in Contents :
         scenario = [pc |-> "save", title |-> title, m |-> m, replies |-> <<>>]

ScenarioStep(from, to) ==
    /\ scenario.pc = from
    /\ scenario' = [scenario EXCEPT !.pc = to, !.replies = Append(@, posted')]
    /\ lastAI' = [type |-> "none"]
    /\ UNCHANGED <<now, hostVars, uiVars, storage, saving>>

ReturnedId == scenario.replies[1][1].data.conversationId

ScenarioSave ==
    /\ handleConversationSave(
         [conversationId |-> NoId, title |-> scenario.title,
          messages |-> <<Message("user", scenario.m)>>])
    /\ ScenarioStep("save", "list")

ScenarioList ==
    /\ handleConversationList
    /\ ScenarioStep("list", "load")

ScenarioLoad ==
    /\ scenario.pc = "load"
    /\ handleConversationLoad([conversationId |-> ReturnedId])
    /\ ScenarioStep("load", "delete")

ScenarioDelete ==
    /\ scenario.pc = "delete"
    /\ handleConversationDelete([conversationId |-> ReturnedId])
    /\ ScenarioStep("delete", "relist")

ScenarioRelist ==
    /\ handleConversationList
    /\ ScenarioStep("relist", "done")

NextScenario ==
    \/ ScenarioSave
    \/ ScenarioList
    \/ ScenarioLoad
    \/ ScenarioDelete
    \/ ScenarioRelist
    \/ Tick

SpecScenario == InitScenario /\ [][NextScenario]_vars


(* ----------------------------- properties ------------------------------ *)
Ids(convs) == {convs[i].id : i \in 1..Len(convs)}

SaveStep == lastReq'.type = "conversation-save"
LoadStep == lastReq'.type = "conversation-load"
DeleteStep == lastReq'.type = "conversation-delete"

\* C1: a conversation-save without conversationId leaves every stored entry
\* as it was and adds exactly one entry, whose id differs from every stored
\* id and whose title and messages are the payload's.
C1_SaveWithoutIdAddsFreshEntry ==
    [][(SaveStep /\ lastReq'.data.conversationId = NoId) =>
         /\ Len(conversations') = Len(conversations) + 1
         /\ \E k \in 1..Len(conversations') :
              /\ Without(conversations', k) = conversations
              /\ conversations'[k].id \notin Ids(conversations)
              /\ conversations'[k].title = lastReq'.data.title
              /\ conversations'[k].messages = lastReq'.data.messages]_vars

\* C2: a conversation-save whose conversationId is the id of a stored entry
\* replaces that entry's title and messages by the payload and sets its
\* updatedAt to the time of the save; its id, its createdAt, its position,
\* the number of entries and every other entry stay as they were.
C2_SaveWithIdUpdatesInPlace ==
    [][(/\ SaveStep
        /\ lastReq'.data.conversationId # NoId
        /\ lastReq'.data.conversationId \in Ids(conversations)) =>
         /\ Len(conversations') = Len(conversations)
         /\ \E i \in 1..Len(conversations) :
              /\ conversations[i].id = lastReq'.data.conversationId
              /\ conversations'[i].id = conversations[i].id
              /\ conversations'[i].createdAt = conversations[i].createdAt
              /\ conversations'[i].title = lastReq'.data.title
              /\ conversations'[i].messages = lastReq'.data.messages
              /\ conversations'[i].updatedAt = lastReq'.at
              /\ conversations'[i].updatedAt >= conversations[i].updatedAt
              /\ \A j \in 1..Len(conversations) :
                   j # i => conversations'[j] = conversations[j]]_vars

\* C2 witness: an entry other than the only one was updated at a later time
\* than it was created, with the payload of the request
C2_Witness ==
    /\ lastReq.type = "conversation-save"
    /\ Len(conversations) = 2
    /\ \E i \in 1..Len(conversations) :
         /\ conversations[i].id = lastReq.data.conversationId
         /\ conversations[i].updatedAt > conversations[i].createdAt
         /\ conversations[i].title = <<"notes">>
         /\ Len(conversations[i].messages) = 2

\* C3: no two entries of the stored conversation list have the same id.
C3_UniqueConversationIds ==
    \A i, j \in 1..Len(conversations) :
        i # j => conversations[i].id # conversations[j].id

\* C4: a conversation-delete whose conversationId matches no stored entry
\* leaves the stored list unchanged, performs no write and is answered with
\* one conversation-deleted message with success = FALSE and nothing else.
C4_DeleteUnknownIsRefused ==
    [][(DeleteStep /\ lastReq'.data.conversationId \notin Ids(conversations)) =>
         /\ conversations' = conversations
         /\ didWrite' = FALSE
         /\ Len(posted') = 1
         /\ posted'[1].type = "conversation-deleted"
         /\ posted'[1].data.success = FALSE]_vars

\* C4 witness: a delete was refused on a store that holds conversations
C4_Witness ==
    /\ lastReq.type = "conversation-delete"
    /\ Len(conversations) = 2
    /\ lastReq.data.conversationId \notin Ids(conversations)
    /\ posted[1].data.success = FALSE
    /\ ~didWrite

\* C5: a conversation-delete whose conversationId matches a stored entry
\* removes exactly one entry, keeps the others unchanged and in order, and is
\* answered with conversation-deleted success = TRUE.
C5_DeleteRemovesExactlyOne ==
    [][(DeleteStep /\ lastReq'.data.conversationId \in Ids(conversations)) =>
         /\ Len(conversations') = Len(conversations) - 1
         /\ \E k \in 1..Len(conversations) :
              /\ conversations[k].id = lastReq'.data.conversationId
              /\ conversations' = Without(conversations, k)
         /\ posted'[1].type = "conversation-deleted"
         /\ posted'[1].data.success = TRUE]_vars

SummaryFields == {"id", "title", "createdAt", "updatedAt", "messageCount"}

\* C6: every conversation-list reply holds one summary per stored
\* conversation, in stored order, made of id, title, createdAt, updatedAt and
\* messageCount only, messageCount being the number of stored messages.
C6_ListHoldsSummariesOnly ==
    \A n \in 1..Len(posted) :
        posted[n].type = "conversation-list" =>
            /\ DOMAIN posted[n].data = 1..Len(conversations)
            /\ \A i \in 1..Len(conversations) :
                 /\ DOMAIN posted[n].data[i] = SummaryFields
                 /\ posted[n].data[i].id = conversations[i].id
                 /\ posted[n].data[i].title = conversations[i].title
                 /\ posted[n].data[i].createdAt = conversations[i].createdAt
                 /\ posted[n].data[i].updatedAt = conversations[i].updatedAt
                 /\ posted[n].data[i].messageCount = Len(conversations[i].messages)

\* C6 witness: a list reply whose summaries count different numbers of messages
C6_Witness ==
    /\ lastReq.type = "conversation-list"
    /\ Len(posted[1].data) = 2
    /\ posted[1].data[1].messageCount = 2
    /\ posted[1].data[2].messageCount = 0

NotFound == [error |-> "Conversation not found"]

\* C7: a conversation-load is answered with exactly one conversation-loaded
\* message, carrying a stored entry with the requested id and all its
\* messages when there is one, and the 'Conversation not found' error record,
\* which no conversation payload can be taken for, when there is none; the
\* stored list is unchanged either way.
C7_LoadFindsOrReportsNotFound ==
    [][LoadStep =>
         /\ conversations' = conversations
         /\ didWrite' = FALSE
         /\ Len(posted') = 1
         /\ posted'[1].type = "conversation-loaded"
         /\ IF lastReq'.data.conversationId \in Ids(conversations)
            THEN /\ "error" \notin DOMAIN posted'[1].data
                 /\ posted'[1].data.id = lastReq'.data.conversationId
                 /\ \E i \in 1..Len(conversations) :
                      posted'[1].data = conversations[i]
            ELSE /\ posted'[1].data = NotFound
                 /\ \A i \in 1..Len(conversations) :
                      "error" \notin DOMAIN conversations[i]]_vars

\* C7 witness: the second stored entry, with two messages, was loaded
C7_Witness ==
    /\ lastReq.type = "conversation-load"
    /\ Len(conversations) = 2
    /\ conversations[1].id # lastReq.data.conversationId
    /\ posted[1].data = conversations[2]
    /\ Len(posted[1].data.messages) = 2

\* C8: from an empty store, save(title, one user message m, no id), list,
\* load(returned id), delete(returned id), list gives a first list of one
\* entry with messageCount = 1, a loaded conversation whose only message has
\* content m, a successful delete and an empty final list.
C8_ExampleSession ==
    scenario.pc = "done" =>
        LET saved == scenario.replies[1][1]
            list == scenario.replies[2][1]
            loaded == scenario.replies[3][1]
            deleted == scenario.replies[4][1]
            relist == scenario.replies[5][1]
        IN  /\ saved.type = "conversation-saved" /\ saved.data.success
            /\ list.type = "conversation-list"
            /\ Len(list.data) = 1
            /\ list.data[1].messageCount = 1
            /\ list.data[1].id = saved.data.conversationId
            /\ loaded.type = "conversation-loaded"
            /\ "error" \notin DOMAIN loaded.data
            /\ Len(loaded.data.messages) = 1
            /\ loaded.data.messages[1].content = scenario.m
            /\ loaded.data.title = scenario.title
            /\ deleted.type = "conversation-deleted" /\ deleted.data.success
            /\ relist.type = "conversation-list"
            /\ Len(relist.data) = 0
            /\ conversations = <<>>

\* C8 witness: the session ran to its end, the clock having moved meanwhile
C8_Witness ==
    /\ scenario.pc = "done"
    /\ Len(scenario.replies) = 5
    /\ scenario.m = <<"hello">>
    /\ now > 0

\* the key configured for the active provider is empty
ActiveKeyEmpty(cfg) ==
    \/ cfg.aiProvider = "openai" /\ cfg.openaiApiKey = ""
    \/ cfg.aiProvider = "claude" /\ cfg.claudeApiKey = ""

\* C9: an ai-request handled while the key of the active provider is empty is
\* answered with one ai-response of status 'error' (the missing-key message
\* naming the provider), and no provider call is dispatched for it.
C9_NoKeyNoCall ==
    [][(lastAI'.type = "ai-request" /\ ActiveKeyEmpty(config)) =>
         /\ Len(posted') = 1
         /\ posted'[1].type = "ai-response"
         /\ posted'[1].data.status = "error"
         /\ posted'[1].data.response =
              <<"Error: No API key configured for", config.aiProvider,
                ". Please set your API key in the Settings.">>
         /\ lastAI'.called = <<>>
         /\ inFlight' = inFlight]_vars

\* C9 witness: the request was refused for the active provider although the
\* other provider has a key and a client
C9_Witness ==
    /\ lastAI.type = "ai-request"
    /\ config.aiProvider = "claude"
    /\ config.claudeApiKey = ""
    /\ config.openaiApiKey # ""
    /\ openaiClient # Null
    /\ posted[1].data.status = "error"

FlagOff(data) ==
    "includeContext" \notin DOMAIN data \/ data.includeContext = FALSE

\* C10: for an ai-request whose includeContext flag is false or absent no code
\* context is gathered, and the prompt handed to the provider call is the
\* request's raw prompt.
C10_FlagOffSendsRawPrompt ==
    /\ (lastAI.type = "ai-request" /\ FlagOff(lastAI.data)) =>
         /\ lastAI.gathered = FALSE
         /\ \A n \in 1..Len(lastAI.called) :
              lastAI.called[n].prompt = lastAI.data.prompt
    /\ \A n \in 1..Len(inFlight) :
         FlagOff(inFlight[n].data) =>
             /\ inFlight[n].prompt = inFlight[n].data.prompt
             /\ inFlight[n].currentContext = Null

\* C10 witness: a request without the flag was dispatched while a file is open
C10_Witness ==
    /\ lastAI.type = "ai-request"
    /\ "includeContext" \notin DOMAIN lastAI.data
    /\ Len(lastAI.called) = 1
    /\ editor # NoEditor
    /\ Len(inFlight) = 1


ExcerptHeader(startLine, endLine) ==
    <<"... (showing lines", ToString(startLine + 1), "-", ToString(endLine + 1),
      "around cursor) ...">>

\* the context-data reply describes the document the editor shows
ContextGathered ==
    /\ lastReq.type = "context-get"
    /\ editor # NoEditor

\* the excerpt of the reply is the header and the lines startLine..endLine
ExcerptIs(startLine, endLine) ==
    posted[1].data.fileContent =
        ExcerptHeader(startLine, endLine) \o LinesText(editor[1], startLine, endLine)

Characters(doc) == doc.lineCount * (doc.lineLength + 1) - 1

\* C11 (as stated): a document of at most 10000 characters is excerpted in
\* full; a longer one by the lines max(0, c-50)..min(lineCount-1, c+50), a
\* range that contains the cursor line c, is centred on it and spans at most
\* 101 lines.
C11_ExcerptCentredOnCursor ==
    ContextGathered =>
        LET doc == editor[1]
            c == doc.cursorLine
        IN  IF Characters(doc) <= FullContentLimit
            THEN posted[1].data.fileContent = LinesText(doc, 0, doc.lineCount - 1)
            ELSE \E s, e \in 0..(doc.lineCount - 1) :
                   /\ ExcerptIs(s, e)
                   /\ s <= c /\ c <= e
                   /\ c - s = e - c
                   /\ e - s + 1 <= 2 * ContextRadius + 1

\* C11 (amended): a document of at most 10000 characters is excerpted in
\* full; a longer one by a header line and the lines max(0, c-50)..
\* min(lineCount-1, c+50), a range that contains the cursor line c, reaches 50
\* lines to either side of it unless the document begins or ends sooner, and
\* spans at most 101 lines.
C11_ExcerptAroundCursor ==
    ContextGathered =>
        LET doc == editor[1]
            c == doc.cursorLine
            last == doc.lineCount - 1
        IN  IF Characters(doc) <= FullContentLimit
            THEN posted[1].data.fileContent = LinesText(doc, 0, last)
            ELSE \E s, e \in 0..last :
                   /\ ExcerptIs(s, e)
                   /\ s = (IF c - ContextRadius > 0 THEN c - ContextRadius ELSE 0)
                   /\ e = (IF c + ContextRadius < last THEN c + ContextRadius ELSE last)
                   /\ s <= c /\ c <= e
                   /\ e - s + 1 <= 2 * ContextRadius + 1

\* C11 witness: a long document excerpted by a window clipped at its first line
C11_Witness ==
    /\ ContextGathered
    /\ Characters(editor[1]) > FullContentLimit
    /\ editor[1].cursorLine = 10
    /\ ExcerptIs(0, 60)


\* C12: when the provider call, or a step of handleAIRequest after the key
\* check, throws, the request is answered with one ai-response of status
\* 'error' whose text carries the message of the exception, and the
\* controller can handle a later ai-request.
C12_ThrowBecomesErrorResponse ==
    /\ lastReq.type = "provider-threw" =>
         /\ Len(posted) = 1
         /\ posted[1].type = "ai-response"
         /\ posted[1].data.status = "error"
         /\ posted[1].data.response = <<"Error:">> \o lastReq.error
         /\ ENABLED AIRequest
    /\ (/\ lastAI.type = "ai-request"
        /\ ~ActiveKeyEmpty(lastAI.config)
        /\ lastAI.config.aiProvider \in {"openai", "claude"}
        /\ lastAI.called = <<>>) =>
         /\ Len(posted) = 1
         /\ posted[1].type = "ai-response"
         /\ posted[1].data.status = "error"
         /\ posted[1].data.response = NotInitialized(lastAI.config.aiProvider)
         /\ ENABLED AIRequest

\* C12 witness: a provider call of a request with context was rejected
C12_Witness ==
    /\ lastReq.type = "provider-threw"
    /\ lastReq.error = <<"429", "Rate limit reached">>
    /\ WantsContext(lastReq.data)
    /\ posted[1].data.status = "error"


Pending(call) == \E i \in 1..Len(inFlight) : inFlight[i].call = call

IsAIResponse(messages) ==
    /\ Len(messages) = 1
    /\ messages[1].type = "ai-response"

Answered(call) ==
    /\ lastReq.type \in {"provider-returned", "provider-threw"}
    /\ lastReq.call = call
    /\ IsAIResponse(posted)

\* C13: an ai-request is answered with exactly one ai-response.  The step that
\* handles it either posts the one reply itself or dispatches one provider
\* call; that call, once settled, posts the one reply and is gone (no second
\* reply, no retry); no other step posts an ai-response; and every dispatched
\* call is eventually answered when the provider returns or throws.
C13_ExactlyOneResponse ==
    /\ [][/\ lastReq'.type = "ai-request" =>
               \/ IsAIResponse(posted') /\ inFlight' = inFlight
               \/ /\ posted' = <<>>
                  /\ Len(inFlight') = Len(inFlight) + 1
                  /\ SubSeq(inFlight', 1, Len(inFlight)) = inFlight
                  /\ inFlight'[Len(inFlight')].data = lastReq'.data
          /\ lastReq'.type \in {"provider-returned", "provider-threw"} =>
               /\ IsAIResponse(posted')
               /\ Pending(lastReq'.call)
               /\ Len(inFlight') = Len(inFlight) - 1
               /\ \A i \in 1..Len(inFlight') :
                    /\ inFlight'[i].call # lastReq'.call
                    /\ \E j \in 1..Len(inFlight) : inFlight[j] = inFlight'[i]
          /\ lastReq'.type \notin {"ai-request", "provider-returned",
                                   "provider-threw"} =>
               /\ inFlight' = inFlight
               /\ \A n \in 1..Len(posted') : posted'[n].type # "ai-response"
         ]_vars
    /\ \A call \in Calls : Pending(call) ~> Answered(call)

\* C13 witness: a dispatched call has just been answered with a success reply
C13_Witness ==
    /\ Answered(1)
    /\ lastReq.type = "provider-returned"
    /\ posted[1].data.status = "success"
    /\ ~Pending(1)


AIRequestsIn(messages) ==
    Len(SelectSeq(messages, LAMBDA m : m.type = "ai-request"))

\* C14: once sendToAI has set aiLoading, only a delivered ai-response (or
\* 'error' message) resets it: no passing of time and no other step of the
\* panel or the host does, and the panel posts an ai-request only when the
\* user presses the send button, never again by itself.
C14_LoadingUntilReplyDelivered ==
    [][/\ (panel.aiLoading /\ ~panel'.aiLoading) =>
            /\ lastReq'.type = "panel-message"
            /\ lastReq'.message.type \in {"ai-response", "error"}
       /\ AIRequestsIn(toHost') > AIRequestsIn(toHost) =>
            /\ AIRequestsIn(toHost') = AIRequestsIn(toHost) + 1
            /\ lastReq'.type = "click"
            /\ lastReq'.button = "sendToAI"
      ]_vars

\* C14 witness: the reply to the request was lost and nothing is on its way,
\* the panel is still loading after the transcript was cleared and time passed
C14_Witness ==
    /\ panel # NoPanel
    /\ panel.aiLoading
    /\ panel.finalTranscript = <<>>
    /\ inFlight = <<>>
    /\ Quiet
    /\ lastReq.type = "tick"


StoredIds == {conversations[i].id : i \in 1..Len(conversations)}

SavesSent == SelectSeq(toHost, LAMBDA m : m.type = "conversation-save")

\* C15: once a save of the panel's conversation has succeeded (or a stored
\* conversation was loaded), every further save of that conversation is sent
\* with the id of the stored entry, so it updates the entry in place and adds
\* none.
C15_LaterSavesCarryTheId ==
    [][(/\ lastReq'.type = "click"
        /\ lastReq'.button = "saveConversation"
        /\ ~panel.isNewConversation
        /\ toHost' # <<>>) =>
           /\ toHost'[1].type = "conversation-save"
           /\ toHost'[1].data.conversationId # NoId
           /\ toHost'[1].data.conversationId \in StoredIds
      ]_vars

\* a conversation that was never loaded or restarted has stored two entries
C15_SecondEntry ==
    /\ panel # NoPanel
    /\ Len(conversations) = 2
    /\ panel.currentConversation = Null
    /\ ~panel.isNewConversation


ExpectedAction(command) ==
    CASE command = "cursor-voice.toggleListening" -> "toggle-listening"
      [] command = "cursor-voice.sendToAI" -> "send-to-ai"
      [] command = "cursor-voice.clearTranscript" -> "clear-transcript"
      [] command = "cursor-voice.openSettings" -> "open-settings"
      [] command = "cursor-voice.openHistory" -> "open-history"
      [] command = "cursor-voice.saveConversation" -> "save-conversation"

IsShortcutCommand(event) ==
    /\ event.type = "command"
    /\ event.command # "cursor-voice.open"

\* C16: a shortcut command invoked while globalWebviewPanel holds a panel
\* posts exactly one keyboard-shortcut message with the command's action to
\* that panel, which is open, and shows no warning; invoked while it holds
\* none, it posts nothing and shows the warning.  The reference is unchanged.
C16_ShortcutPostsToHeldPanel ==
    [][IsShortcutCommand(lastReq') =>
         /\ globalWebviewPanel' = globalWebviewPanel
         /\ IF globalWebviewPanel # Null
            THEN /\ posted' = <<[type |-> "keyboard-shortcut",
                                 data |-> [action |->
                                            ExpectedAction(lastReq'.command)]]>>
                 /\ lastReq'.target = globalWebviewPanel
                 /\ globalWebviewPanel[1] \in openPanels
                 /\ lastReq'.warning = Null
            ELSE /\ posted' = <<>>
                 /\ lastReq'.target = Null
                 /\ lastReq'.warning = PanelNotOpen
      ]_vars

\* C16 witness: saveConversation was invoked with the second panel held
C16_Witness ==
    /\ IsShortcutCommand(lastReq)
    /\ lastReq.command = "cursor-voice.saveConversation"
    /\ lastReq.target = <<2>>
    /\ Len(posted) = 1
    /\ posted[1].data.action = "save-conversation"


ShortcutReceived(action) ==
    /\ lastReq'.type = "panel-message"
    /\ lastReq'.message.type = "keyboard-shortcut"
    /\ lastReq'.message.data.action = action

Sent(type) ==
    /\ Len(toHost') = Len(toHost) + 1
    /\ toHost'[Len(toHost')].type = type

\* C17: a keyboard-shortcut message makes the panel act on its current state
\* as the button would: 'toggle-listening' starts the recognizer when it is
\* supported and idle and stops it when listening, 'send-to-ai' posts an
\* ai-request when there is a non-empty final transcript and a key,
\* 'save-conversation' posts a conversation-save when there is content.
C17_ShortcutActsOnCurrentState ==
    [][/\ (/\ ShortcutReceived("toggle-listening")
           /\ panel.isSupported /\ ~panel.listening /\ recognizer = "idle")
          => recognizer' = "starting"
       /\ (ShortcutReceived("toggle-listening") /\ panel.listening)
          => recognizer' = "stopping"
       /\ (/\ ShortcutReceived("send-to-ai")
           /\ Trim(panel.finalTranscript) # <<>> /\ panel.hasApiKey)
          => /\ Sent("ai-request")
             /\ toHost'[Len(toHost')].data.prompt = panel.finalTranscript
       /\ (/\ ShortcutReceived("save-conversation")
           /\ Trim(panel.finalTranscript) # <<>>)
          => Sent("conversation-save")
      ]_vars


RecognizerFailure(code) == <<"Speech recognition error:", code>>

\* C18: an error event of the recognizer resets listening, sets the panel's
\* error text to the failure and posts one 'error' message with that text;
\* the host shows it as a notification and posts nothing back; listening
\* becomes true only by a start event, is false after every end or error
\* event, and is true only while the recognizer is started.
C18_RecognizerErrorReported ==
    /\ [](panel # NoPanel /\ panel.listening
             => recognizer \in {"running", "stopping"})
    /\ [][/\ lastReq'.type = "onerror" =>
               /\ ~panel'.listening
               /\ panel'.error = RecognizerFailure(lastReq'.error)
               /\ toHost' = Append(toHost,
                      [type |-> "error",
                       data |-> [message |->
                                  RecognizerFailure(lastReq'.error)]])
          /\ lastReq'.type = "error" =>
               /\ posted' = <<>>
               /\ toPanel' = toPanel
               /\ panel' = panel
               /\ lastReq'.notification =
                      <<"CursorVoice Error:">> \o Head(toHost).data.message
          /\ (~panel.listening /\ panel'.listening) => lastReq'.type = "onstart"
          /\ lastReq'.type \in {"onend", "onerror"} => ~panel'.listening
         ]_vars

\* C18 witness: the recognizer failed while listening and the host has shown
\* the notification
C18_Witness ==
    /\ lastReq.type = "error"
    /\ lastReq.notification =
           <<"CursorVoice Error:", "Speech recognition error:", "no-speech">>
    /\ ~panel.listening
    /\ panel.error = <<"Speech recognition error:", "no-speech">>
    /\ panel.finalTranscript # <<>>
    /\ recognizer = "ending"


WriteFailed ==
    /\ lastReq.type \in {"conversation-save", "conversation-delete"}
    /\ didWrite
    /\ ~lastReq.written

\* C19: a conversation-save or -delete whose write to the persistent store
\* fails is answered with one reply of its own type with success = false,
\* never with a success reply.
C19_WriteFailureIsReported ==
    WriteFailed =>
        /\ Len(posted) = 1
        /\ posted[1].type = IF lastReq.type = "conversation-save"
                            THEN "conversation-saved"
                            ELSE "conversation-deleted"
        /\ posted[1].data.success = FALSE


\* C20: after activation, after every configuration-change event and after
\* every step of a settings-save, completed or failed, the OpenAI client is
\* non-null exactly when the configured OpenAI key is non-empty and the
\* Claude client is non-null exactly when the configured Claude key is
\* non-empty, each client being built from the configured key.
C20_ClientsFollowKeys ==
    /\ (openaiClient # Null) <=> (config.openaiApiKey # "")
    /\ (anthropicClient # Null) <=> (config.claudeApiKey # "")
    /\ openaiClient # Null => openaiClient[1].apiKey = config.openaiApiKey
    /\ anthropicClient # Null => anthropicClient[1].apiKey = config.claudeApiKey

\* C20 witness: a settings-save has completed that set the OpenAI key and
\* cleared the Claude key
C20_Witness ==
    /\ lastReq.type = "settings-saved"
    /\ lastReq.data.openaiApiKey # ""
    /\ lastReq.data.claudeApiKey = ""
    /\ openaiClient # Null
    /\ anthropicClient = Null
    /\ Len(posted) = 2


AIResponsesIn(messages) ==
    Len(SelectSeq(messages, LAMBDA m : m.type \in {"ai-response", "error"}))

\* the ai-requests of the panel that have no reply delivered yet: on their
\* way to the host, at the provider, or answered with the reply on its way
Outstanding ==
    AIRequestsIn(toHost) + Len(inFlight) + AIResponsesIn(toPanel)

\* C21: the panel never has more than one ai-request outstanding, whatever
\* the user does with the send button and the shortcut commands: it posts an
\* ai-request only while aiLoading is false and sets aiLoading with it, and
\* aiLoading stays true until an ai-response or error message arrives, so it
\* is true whenever a request has no delivered reply.
C21_OneRequestOutstanding ==
    /\ [](Outstanding <= 1)
    /\ [](Outstanding = 1 => panel.aiLoading)
    /\ [][/\ AIRequestsIn(toHost') > AIRequestsIn(toHost) =>
               /\ ~panel.aiLoading
               /\ panel'.aiLoading
               /\ AIRequestsIn(toHost') = AIRequestsIn(toHost) + 1
          /\ (~panel.aiLoading /\ panel'.aiLoading) =>
               AIRequestsIn(toHost') = AIRequestsIn(toHost) + 1
          /\ (panel.aiLoading /\ ~panel'.aiLoading) =>
               /\ lastReq'.type = "panel-message"
               /\ lastReq'.message.type \in {"ai-response", "error"}
         ]_vars

\* C21 witness: the send-to-ai shortcut was delivered to the panel while the
\* provider call of the ai-request was pending, and posted nothing
C21_Witness ==
    /\ panel.aiLoading
    /\ Len(inFlight) = 1
    /\ lastReq.type = "panel-message"
    /\ lastReq.message.type = "keyboard-shortcut"
    /\ lastReq.message.data.action = "send-to-ai"
    /\ toHost = <<>>


SaveAnswered ==
    /\ lastReq.type = "conversation-save"
    /\ posted # <<>>
    /\ posted[1].type = "conversation-saved"
    /\ posted[1].data.success

DeleteAnswered ==
    /\ lastReq.type = "conversation-delete"
    /\ posted # <<>>
    /\ posted[1].type = "conversation-deleted"
    /\ posted[1].data.success

FollowedByList ==
    /\ Len(posted) = 2
    /\ posted[2].type = "conversation-list"

\* C22: a conversation-save answered with success is answered with
\* conversation-saved and then conversation-list, and the list has a summary
\* with the returned id whose messageCount is the number of messages of the
\* request; a conversation-delete answered with success is followed by a
\* list without the deleted id.
C22_RepliesFollowedByFreshList ==
    /\ SaveAnswered =>
          /\ FollowedByList
          /\ \E i \in DOMAIN posted[2].data :
                /\ posted[2].data[i].id = posted[1].data.conversationId
                /\ posted[2].data[i].messageCount = Len(lastReq.data.messages)
    /\ DeleteAnswered =>
          /\ FollowedByList
          /\ \A i \in DOMAIN posted[2].data :
                posted[2].data[i].id # lastReq.data.conversationId

\* C23: when a conversation-save is answered with success and conversationId
\* k, the stored list has an entry with id k whose title and messages are
\* those of the request, whatever conversationId the request carried.
C23_SavedReplyNamesStoredEntry ==
    SaveAnswered =>
        \E i \in 1..Len(conversations) :
            /\ conversations[i].id = posted[1].data.conversationId
            /\ conversations[i].title = lastReq.data.title
            /\ conversations[i].messages = lastReq.data.messages


LastContent(messages, type) ==
    IF LastOf(messages, type) # <<>> THEN LastOf(messages, type)[1].content
    ELSE <<>>

\* the panel shows a conversation as it was loaded: no transcript and no AI
\* response other than those the load put there
ShowsLoaded ==
    /\ panel # NoPanel
    /\ panel.currentConversation # Null
    /\ panel.conversationMessages = panel.currentConversation[1].messages
    /\ panel.finalTranscript = LastContent(panel.conversationMessages, "user")
    /\ panel.aiResponse = LastContent(panel.conversationMessages, "assistant")

StoredMessages(convs, id) == FoundConversation(convs, id)[1].messages

\* C24: saving a conversation the panel shows as loaded, with no new
\* transcript or AI response, leaves the messages of the stored entry as
\* they were, however often the save is repeated.
C24_LoadThenSaveKeepsMessages ==
    [][(/\ lastReq'.type = "conversation-save"
        /\ ShowsLoaded
        /\ FoundConversation(conversations, lastReq'.data.conversationId) # <<>>)
       => StoredMessages(conversations', lastReq'.data.conversationId)
            = StoredMessages(conversations, lastReq'.data.conversationId)
      ]_vars


\* C25: whatever the interleaving of open commands and panel disposals, the
\* global panel reference is null or refers to a panel that is still open.
C25_ReferenceNeverDisposed ==
    globalWebviewPanel # Null => globalWebviewPanel[1] \in openPanels

\* C25 witness: one of two open panels has just been disposed
C25_Witness ==
    /\ lastReq.type = "disposed"
    /\ lastReq.target[1] \notin openPanels
    /\ openPanels # {}
    /\ globalWebviewPanel = Null

\* C26: while at least one panel is open the global panel reference is
\* non-null, and a shortcut command issued then is posted to a panel and not
\* answered with the warning that the panel is not open.
C26_ReferenceWhilePanelOpen ==
    openPanels # {} =>
        /\ globalWebviewPanel # Null
        /\ IsShortcutCommand(lastReq) => lastReq.warning = Null


\* what the handler takes in the current state
SettingsInUse ==
    [provider |-> config.aiProvider,
     key |-> getApiKey(config, config.aiProvider),
     client |-> IF config.aiProvider = "openai" THEN openaiClient
                ELSE IF config.aiProvider = "claude" THEN anthropicClient
                ELSE Null]

\* C27: an ai-request handled while a settings-save, the only one, is in
\* progress takes provider, key and client either all from the settings the
\* save found or all from the settings being saved.
C27_RequestSeesOneSettingsRecord ==
    [][(/\ lastReq'.type = "ai-request"
        /\ Len(saving) = 1
        /\ saving[1].found # <<>>) =>
          \/ SettingsInUse = saving[1].found[1]
          \/ SettingsInUse = SettingsUsed(saving[1].data)
      ]_vars


\* the replies of the settings handlers, the init message of a completed
\* save reporting the key of the saved provider found in `source`: the
\* "saved" settings or the "configured" ones
SettingsReplies(source) ==
    /\ lastReq.type \in {"settings-save", "settings-updated"} => posted = <<>>
    /\ lastReq.type = "settings-saved" =>
          /\ Len(posted) = 2
          /\ posted[1].type = "settings-saved"
          /\ posted[1].data.success
          /\ posted[2].type = "init"
          /\ posted[2].data.aiProvider = lastReq.data.aiProvider
          /\ posted[2].data.hasApiKey <=>
                getApiKey(IF source = "saved" THEN lastReq.data ELSE config,
                          lastReq.data.aiProvider) # ""
    /\ lastReq.type = "settings-failed" =>
          /\ Len(posted) = 1
          /\ posted[1].type = "settings-saved"
          /\ ~posted[1].data.success
    /\ lastReq.type = "settings-get" =>
          /\ Len(posted) = 1
          /\ posted[1].type = "settings-data"
          /\ posted[1].data = config

\* C28 as stated: a settings-save posts nothing until it ends; when its five
\* updates have succeeded it posts settings-saved with success = true and
\* then one init message with the saved provider and hasApiKey true exactly
\* when the saved key of that provider is non-empty; when an update fails it
\* posts settings-saved with success = false and nothing else.  A
\* settings-get is answered with one settings-data message holding the
\* current settings.
C28_InitReportsSavedKey == SettingsReplies("saved")

\* C28 amended: the same, hasApiKey being true exactly when the key
\* configured for the saved provider at the time of the reply is non-empty.
C28_InitReportsConfiguredKey == SettingsReplies("configured")

\* C28 witness: a save that set the key of its provider has completed after
\* the key was removed again from the configuration, and its init message
\* reports that there is no key
C28_Witness ==
    /\ lastReq.type = "settings-saved"
    /\ getApiKey(lastReq.data, lastReq.data.aiProvider) # ""
    /\ Len(posted) = 2
    /\ ~posted[2].data.hasApiKey


\* nothing is on its way between the panel and the host, and no handler is
\* waiting for an update
Settled == Quiet /\ saving = <<>>

\* C29: once every message in flight has been delivered, the panel's
\* aiProvider is the configured provider and its hasApiKey is true exactly
\* when the configured key of that provider is non-empty.
C29_PanelViewTracksConfiguration ==
    (Tracked /\ Settled) =>
        /\ panel.aiProvider = config.aiProvider
        /\ panel.hasApiKey <=> getApiKey(config, config.aiProvider) # ""


\* the recognizer method the panel calls in a step: by the button or by a
\* delivered message
CallMade ==
    IF lastReq'.type = "click" /\ lastReq'.button = "toggleListening"
    THEN toggleListening(panel, panel).call
    ELSE IF lastReq'.type = "panel-message"
    THEN messageHandler(lastReq'.message, panel).call
    ELSE "none"

\* C30: every start() is called on an idle recognizer, every stop() on one
\* that was started and has not ended.
C30_StartOnlyWhenIdle ==
    [][/\ CallMade = "start" => recognizer = "idle"
       /\ CallMade = "stop" => recognizer \in {"starting", "running", "stopping"}
      ]_vars

====
